---- MODULE Spec2Model ----
(***************************************************************************)
(* State-machine model of qtAliceVision::SequenceCache and of its          *)
(* background loader PrefetchingIORunnable (src/src/SequenceCache.cpp).    *)
(*                                                                         *)
(* A path is modelled by a natural number; the order of the numbers is the *)
(* order of std::string::operator< on the paths.  Frame numbers are        *)
(* 0-based as in the code; TLA+ sequences are 1-based, so frame f of       *)
(* _sequence is sequence[f + 1].                                           *)
(***************************************************************************)
EXTENDS Integers, Sequences, FiniteSets, TLC

VARIABLES
    sequence,            \* _sequence: std::vector<FrameData>
    cache,               \* keys (path, level) present in *_cache
    regionPrefetch,      \* _regionPrefetch
    regionSafe,          \* _regionSafe
    nextRegionPrefetch,  \* _nextRegionPrefetch
    nextRegionSafe,      \* _nextRegionSafe
    loading,             \* _loading
    pool,                \* runnables handed to QThreadPool, not yet finished
    signals,             \* resultReady events queued to the owner thread
    undecodable,         \* paths for which the image decoder fails
    unprobeable,         \* paths for which the metadata probe fails
    released,            \* ~SequenceCache has run: *_cache is deleted
    client,              \* a client that asks for one path, and the loads
                         \* completed since its first request
    viewer,              \* a FloatImageViewer or PanoramaViewer item, its
                         \* runnables and the results queued for it
    last,                \* observation of the step just taken
    trigger              \* frame and sequence length of the last dispatch

vars == <<sequence, cache, regionPrefetch, regionSafe, nextRegionPrefetch,
          nextRegionSafe, loading, pool, signals, undecodable, unprobeable,
          released, client, last, trigger, viewer>>

-----------------------------------------------------------------------------
(* Program constants and bounds of the model *)

ExtentPrefetch == 30
ExtentSafe == 20
Level == 1

\* Number of paths of the long input list (paths 1..NumFrames).
NumFrames == 100

\* Largest sequence length and extent for which getRegion is computed on its
\* own.
MaxSize == 12
MaxExtent == 7

\* Longest input list and largest path of the lists on which the sequence
\* index is checked on its own.
MaxLen == 3
MaxPath == 3

\* Largest number of completed loads counted for a client.
MaxCompletions == 3

\* Sources 1..NumSources and downscale levels 0..MaxLevel given to a viewer.
NumSources == 2
MaxLevel == 1

\* A path no input list contains.
UnknownPath == NumFrames + 1

-----------------------------------------------------------------------------
(* Image decoder (external collaborator) *)

Width(path) == 640 + path
Height(path) == 480 + 2 * path
\* The metadata of an image is a set of (name, value) items.
readImageMetadata(path) == [width |-> Width(path), height |-> Height(path),
                            metadata |-> {<<"source", path>>}]

\* The decoded pixels of a path at a resolution level.
Image(path, level) == <<path, level>>

\* Null image pointer, invalid QSize, empty QVariantMap.
NoImage == <<>>
NoDim == <<-1, -1>>
NoMetadata == {}

\* Response response; (default-constructed)
EmptyResponse == [img |-> NoImage, dim |-> NoDim, metadata |-> NoMetadata]

-----------------------------------------------------------------------------
(* Sequence index *)

\* Body of the loop of setSequence: one FrameData per path.
FrameData(path) ==
    LET probe == readImageMetadata(path)
    IN [path |-> path,
        dim |-> <<probe.width, probe.height>>,
        metadata |-> probe.metadata]

\* Mutant: the descriptors are left in the order of the input.
SortByPath_unsorted(frames) == frames

\* std::sort of the descriptors by path.  The position of an element is the
\* number of elements that sort before it (ties broken by input position;
\* elements with equal paths are equal values).
SortByPath(frames) ==
    LET n == Len(frames)
        rank(i) == Cardinality({j \in 1..n :
                       \/ frames[j].path < frames[i].path
                       \/ frames[j].path = frames[i].path /\ j < i}) + 1
    IN [k \in 1..n |-> frames[CHOOSE i \in 1..n : rank(i) = k]]

\* The descriptors the loop of setSequence pushes for these paths, in the
\* order of the paths.
Descriptors(paths) == [i \in 1..Len(paths) |-> FrameData(paths[i])]

\* readImageMetadata throws for one of the paths.
probeFails(paths) == \E i \in 1..Len(paths) : paths[i] \in unprobeable

\* The paths the loop of setSequence gets through: all of them, or those
\* before the first one whose probe throws.
Probed(paths) ==
    LET bad == {i \in 1..Len(paths) : paths[i] \in unprobeable}
    IN IF bad = {} THEN paths
       ELSE SubSeq(paths, 1, (CHOOSE i \in bad : \A j \in bad : i <= j) - 1)

\* _sequence after setSequence(paths).  The exception of a failing probe
\* leaves setSequence before the sort, with the descriptors pushed so far.
setSequence(paths) ==
    IF probeFails(paths)
    THEN Descriptors(Probed(paths))
    ELSE SortByPath(Descriptors(paths))

\* Mutant: a path that is not found yields the last index.
getFrame_lastIndex(path) ==
    LET hits == {i \in 1..Len(sequence) : sequence[i].path = path}
    IN IF hits = {} THEN Len(sequence) - 1
       ELSE (CHOOSE i \in hits : \A j \in hits : i <= j) - 1

\* Mutant: the scan does not stop at the first match.
getFrame_lastMatch(path) ==
    LET hits == {i \in 1..Len(sequence) : sequence[i].path = path}
    IN IF hits = {} THEN -1
       ELSE (CHOOSE i \in hits : \A j \in hits : i >= j) - 1

\* The scan of getFrame returns at the first index whose path matches.
getFrame(path) ==
    LET hits == {i \in 1..Len(sequence) : sequence[i].path = path}
    IN IF hits = {} THEN -1
       ELSE (CHOOSE i \in hits : \A j \in hits : i <= j) - 1

-----------------------------------------------------------------------------
(* Window planner *)

Min(a, b) == IF a < b THEN a ELSE b
Max(a, b) == IF a > b THEN a ELSE b

Pair(a, b) == [first |-> a, second |-> b]

\* Mutant: the window is cut at the ends of the sequence, not shifted.
getRegion_truncate(frame, extent, size) ==
    Pair(Max(0, frame - extent), Min(size - 1, frame + extent))

\* Mutant: at the start of the sequence the end is not limited to the last
\* frame.
getRegion_unclampedEnd(frame, extent, size) ==
    LET start == frame - extent
        end == frame + extent
    IN IF start < 0
       THEN Pair(0, 2 * extent)
       ELSE IF end >= size
            THEN Pair(Max(0, size - 1 - 2 * extent), size - 1)
            ELSE Pair(start, end)

getRegion(frame, extent, size) ==
    LET start == frame - extent
        end == frame + extent
    IN IF start < 0
       THEN Pair(0, Min(size - 1, 2 * extent))
       ELSE IF end >= size
            THEN Pair(Max(0, size - 1 - 2 * extent), size - 1)
            ELSE Pair(start, end)

InRegion(frame, region) == frame >= region.first /\ frame <= region.second

-----------------------------------------------------------------------------
(* Bounded pixel cache (aliceVision::image::ImageCache, pull-through) *)

Key(path) == <<path, Level>>

\* _cache->contains<RGBAfColor>(path, 1)
contains(path) == Key(path) \in cache

\* _cache->get<RGBAfColor>(path, 1) has to run the image decoder
mustDecode(path) == ~contains(path)

\* _cache->get<RGBAfColor>(path, 1) fails: the decoder is run and fails
getFails(path) == mustDecode(path) /\ path \in undecodable

\* content of the cache after _cache->get<RGBAfColor>(path, 1)
cacheAfterGet(path) == IF getFails(path) THEN cache ELSE cache \cup {Key(path)}

-----------------------------------------------------------------------------
(* Inputs *)

\* All paths 1..NumFrames, given in descending order.
LongList == [i \in 1..NumFrames |-> NumFrames + 1 - i]

\* The odd paths of 1..NumFrames, given in descending order.
ShortList == [i \in 1..(NumFrames \div 2) |-> 2 * ((NumFrames \div 2) - i) + 1]

PathLists == {LongList, ShortList}

\* The sequence index each input list yields when every probe succeeds.
Indexed == [paths \in PathLists |-> SortByPath(Descriptors(paths))]

\* Paths asked for: frames 0, 50 and 80 of the long list (frames 0, 25 and 40
\* of the short one), and a path of no list.
RequestPaths == {1, 51, 81, UnknownPath}

-----------------------------------------------------------------------------
(* Initial state: SequenceCache::SequenceCache *)

NoCall == [op |-> "none", paths |-> <<>>, path |-> UnknownPath, frame |-> -1,
           dispatched |-> FALSE, decoded |-> FALSE, thrown |-> FALSE,
           handled |-> 0, response |-> EmptyResponse]

\* No client is being followed.
NoClient == [path |-> UnknownPath, completions |-> 0]

\* QUrl(): the source that is not valid.
InvalidSource == 0

\* No viewer item is being followed.  The fields are the members of
\* FloatImageViewer and PanoramaViewer, the runnables started for the item
\* and the resultReady events queued for it.
NoViewer == [kind |-> "none", source |-> InvalidSource, downscaleLevel |-> 0,
             clearBeforeLoad |-> FALSE, loading |-> FALSE,
             outdated |-> FALSE, image |-> NoImage, sourceSize |-> <<0, 0>>,
             metadata |-> NoMetadata, runnables |-> <<>>, results |-> <<>>]

Init ==
    /\ sequence = <<>>
    /\ cache = {}
    /\ regionPrefetch = Pair(0, 0)
    /\ regionSafe = Pair(0, 0)
    /\ nextRegionPrefetch = Pair(0, 0)
    /\ nextRegionSafe = Pair(0, 0)
    /\ loading = FALSE
    /\ pool = <<>>
    /\ signals = 0
    /\ undecodable = {}
    /\ unprobeable = {}
    /\ released = FALSE
    /\ viewer = NoViewer
    /\ client = NoClient
    /\ last = NoCall
    /\ trigger = [frame |-> -1, size |-> 0]

-----------------------------------------------------------------------------
(* SequenceCache::setSequence *)

SetSequence ==
    \E paths \in PathLists :
        /\ ~released
        /\ sequence' = IF probeFails(paths)
                       THEN setSequence(paths)
                       ELSE Indexed[paths]
        /\ last' = [NoCall EXCEPT !.op = "setSequence", !.paths = paths,
                                  !.thrown = probeFails(paths)]
        /\ UNCHANGED <<cache, regionPrefetch, regionSafe, nextRegionPrefetch,
                       nextRegionSafe, loading, pool, signals, undecodable,
                       unprobeable, viewer, released, client, trigger>>

-----------------------------------------------------------------------------
(* SequenceCache::request *)

\* Mutant: the prefetch region, not the safe region, triggers a load.
mustLoad_prefetch(frame) ==
    (frame < regionPrefetch.first \/ frame > regionPrefetch.second) /\ ~loading

\* Mutant: the loading flag is not consulted.
mustLoad_ignoreLoading(frame) ==
    frame < regionSafe.first \/ frame > regionSafe.second

\* Request falls outside of safe region (and no load is running)
mustLoad(frame) ==
    (frame < regionSafe.first \/ frame > regionSafe.second) /\ ~loading

\* std::vector<FrameData> toLoad(begin() + region.first, begin() + region.second)
toLoad(region) == SubSeq(sequence, region.first + 1, region.second)

\* Mutant: the pending prefetch region decides a hit.
inPrefetch_pending(frame) ==
    frame >= nextRegionPrefetch.first /\ frame <= nextRegionPrefetch.second

\* Mutant: the prefetch region is served only while no load is running.
inPrefetch_idle(frame) ==
    ~loading /\ frame >= regionPrefetch.first /\ frame <= regionPrefetch.second

\* Mutant: the two bounds are joined by "or".
inPrefetch_or(frame) ==
    frame >= regionPrefetch.first \/ frame <= regionPrefetch.second

\* Image is in prefetching region
inPrefetch(frame) ==
    frame >= regionPrefetch.first /\ frame <= regionPrefetch.second

\* new PrefetchingIORunnable(_cache, toLoad)
Runnable(batch) == [toLoad |-> batch, next |-> 1, aborted |-> FALSE]

\* The response built for a frame of the prefetching region.
hitResponse(frame) ==
    LET data == sequence[frame + 1]
    IN [img |-> Image(data.path, Level),
        dim |-> data.dim,
        metadata |-> data.metadata]

\* Mutant: the return for a path that is not found is missing.
request_noEarlyReturn(path) ==
    LET frame == getFrame(path)
        dispatch == mustLoad(frame)
        nextP == getRegion(frame, ExtentPrefetch, Len(sequence))
        nextS == getRegion(frame, ExtentSafe, Len(sequence))
        hit == inPrefetch(frame)
        data == sequence[frame + 1]
        decode == hit /\ mustDecode(data.path)
        throws == hit /\ getFails(data.path)
    IN /\ IF dispatch
          THEN /\ loading' = TRUE
               /\ nextRegionPrefetch' = nextP
               /\ nextRegionSafe' = nextS
               /\ pool' = Append(pool, Runnable(toLoad(nextP)))
               /\ trigger' = [frame |-> frame, size |-> Len(sequence)]
          ELSE UNCHANGED <<loading, nextRegionPrefetch, nextRegionSafe,
                           pool, trigger>>
       /\ cache' = IF hit THEN cacheAfterGet(data.path) ELSE cache
       /\ last' = [op |-> "request", paths |-> <<>>, path |-> path,
                   frame |-> frame,
                   dispatched |-> dispatch, decoded |-> decode,
                   thrown |-> throws, handled |-> 0,
                   response |-> IF hit /\ ~throws
                                THEN hitResponse(frame)
                                ELSE EmptyResponse]
       /\ UNCHANGED <<sequence, regionPrefetch, regionSafe, signals,
                      undecodable, unprobeable, viewer, released>>

request(path) ==
    LET frame == getFrame(path)
    IN IF frame < 0
       THEN /\ last' = [NoCall EXCEPT !.op = "request", !.path = path]
            /\ UNCHANGED <<sequence, cache, regionPrefetch, regionSafe,
                           nextRegionPrefetch, nextRegionSafe, loading, pool,
                           signals, undecodable, unprobeable, viewer, released, trigger>>
       ELSE LET dispatch == mustLoad(frame)
                nextP == getRegion(frame, ExtentPrefetch, Len(sequence))
                nextS == getRegion(frame, ExtentSafe, Len(sequence))
                hit == inPrefetch(frame)
                data == sequence[frame + 1]
                decode == hit /\ mustDecode(data.path)
                throws == hit /\ getFails(data.path)
            IN /\ IF dispatch
                  THEN /\ loading' = TRUE
                       /\ nextRegionPrefetch' = nextP
                       /\ nextRegionSafe' = nextS
                       /\ pool' = Append(pool, Runnable(toLoad(nextP)))
                       /\ trigger' = [frame |-> frame, size |-> Len(sequence)]
                  ELSE UNCHANGED <<loading, nextRegionPrefetch,
                                   nextRegionSafe, pool, trigger>>
               /\ cache' = IF hit THEN cacheAfterGet(data.path) ELSE cache
               /\ last' = [op |-> "request", paths |-> <<>>, path |-> path,
                           frame |-> frame,
                           dispatched |-> dispatch, decoded |-> decode,
                           thrown |-> throws, handled |-> 0,
                           response |-> IF hit /\ ~throws
                                        THEN hitResponse(frame)
                                        ELSE EmptyResponse]
               /\ UNCHANGED <<sequence, regionPrefetch, regionSafe, signals,
                              undecodable, unprobeable, viewer, released>>

Request ==
    /\ ~released
    /\ \E path \in RequestPaths : request(path)
    /\ UNCHANGED client

-----------------------------------------------------------------------------
(* PrefetchingIORunnable::run, one cache access per step *)

\* _cache->get<RGBAfColor>(data.path, 1) for the next descriptor of the batch.
\* Once the cache is deleted the call goes through a dangling pointer: it
\* may seem to work or end the runnable, and the deleted cache holds nothing.
WorkerLoad ==
    \E i \in 1..Len(pool) :
        LET r == pool[i]
        IN /\ ~r.aborted
           /\ r.next <= Len(r.toLoad)
           /\ LET path == r.toLoad[r.next].path
              IN IF released
                 THEN /\ cache' = cache
                      /\ pool' \in {[pool EXCEPT ![i].next = @ + 1],
                                    [pool EXCEPT ![i].aborted = TRUE]}
                 ELSE /\ cache' = cacheAfterGet(path)
                      /\ pool' = IF getFails(path)
                                 THEN [pool EXCEPT ![i].aborted = TRUE]
                                 ELSE [pool EXCEPT ![i].next = @ + 1]
           /\ last' = [NoCall EXCEPT !.op = "run"]
           /\ UNCHANGED <<sequence, regionPrefetch, regionSafe,
                          nextRegionPrefetch, nextRegionSafe, loading,
                          signals, undecodable, unprobeable, viewer, released, client,
                          trigger>>

\* Mutant: the worker clears the loading flag itself.
WorkerEmit_clearsLoading ==
    \E i \in 1..Len(pool) :
        LET r == pool[i]
        IN /\ ~r.aborted
           /\ r.next > Len(r.toLoad)
           /\ signals' = IF released THEN signals ELSE signals + 1
           /\ loading' = FALSE
           /\ pool' = SubSeq(pool, 1, i - 1) \o SubSeq(pool, i + 1, Len(pool))
           /\ last' = [NoCall EXCEPT !.op = "resultReady"]
           /\ UNCHANGED <<sequence, cache, regionPrefetch, regionSafe,
                          nextRegionPrefetch, nextRegionSafe,
                          undecodable, unprobeable, viewer, released, client, trigger>>

\* Q_EMIT resultReady(): the event is queued to the owner thread and the
\* runnable is done.  The connection ends with the receiver: after
\* ~SequenceCache nothing is queued.
WorkerEmit ==
    \E i \in 1..Len(pool) :
        LET r == pool[i]
        IN /\ ~r.aborted
           /\ r.next > Len(r.toLoad)
           /\ signals' = IF released THEN signals ELSE signals + 1
           /\ pool' = SubSeq(pool, 1, i - 1) \o SubSeq(pool, i + 1, Len(pool))
           /\ last' = [NoCall EXCEPT !.op = "resultReady"]
           /\ UNCHANGED <<sequence, cache, regionPrefetch, regionSafe,
                          nextRegionPrefetch, nextRegionSafe, loading,
                          undecodable, unprobeable, viewer, released, client, trigger>>

-----------------------------------------------------------------------------
(* SequenceCache::onResultReady, run by the owner thread's event loop *)

\* Q_EMIT requestHandled() is counted in last.handled.

\* Mutant: the two pending regions are promoted crosswise.
onResultReady_swapped ==
    /\ loading' = FALSE
    /\ regionPrefetch' = nextRegionSafe
    /\ regionSafe' = nextRegionPrefetch
    /\ last' = [NoCall EXCEPT !.op = "onResultReady", !.handled = 1]

\* Mutant: the safe region is not promoted.
onResultReady_keepSafe ==
    /\ loading' = FALSE
    /\ regionPrefetch' = nextRegionPrefetch
    /\ regionSafe' = regionSafe
    /\ last' = [NoCall EXCEPT !.op = "onResultReady", !.handled = 1]

onResultReady ==
    /\ loading' = FALSE
    /\ regionPrefetch' = nextRegionPrefetch
    /\ regionSafe' = nextRegionSafe
    /\ last' = [NoCall EXCEPT !.op = "onResultReady", !.handled = 1]

\* The loads completed since the client's first request are counted up to
\* MaxCompletions.
OnResultReady ==
    /\ ~released
    /\ signals > 0
    /\ signals' = signals - 1
    /\ onResultReady
    /\ client' = IF client = NoClient THEN client
                 ELSE [client EXCEPT
                          !.completions = Min(@ + 1, MaxCompletions)]
    /\ UNCHANGED <<sequence, cache, nextRegionPrefetch, nextRegionSafe, pool,
                   undecodable, unprobeable, viewer, released, trigger>>

-----------------------------------------------------------------------------
(* SequenceCache::~SequenceCache *)

\* delete _cache.  The QObject base ends the connection to onResultReady and
\* drops the events queued for the object; the runnables belong to the
\* global thread pool and go on with the pointer they were given.
Destroy ==
    /\ ~released
    /\ released' = TRUE
    /\ cache' = {}
    /\ signals' = 0
    /\ last' = [NoCall EXCEPT !.op = "destroy"]
    /\ UNCHANGED <<sequence, regionPrefetch, regionSafe, nextRegionPrefetch,
                   nextRegionSafe, loading, pool, undecodable, unprobeable, viewer,
                   client, trigger>>

-----------------------------------------------------------------------------

Next ==
    \/ SetSequence
    \/ Request
    \/ WorkerLoad
    \/ WorkerEmit
    \/ OnResultReady

Spec == Init /\ [][Next]_vars

\* The life of a coordinator up to and beyond its destruction.
NextDestroy == Next \/ Destroy

SpecDestroy == Init /\ [][NextDestroy]_vars

-----------------------------------------------------------------------------
(* Observations shared by the properties *)

\* The step just taken was a call of request() for a path of the sequence.
Requested == last.op = "request" /\ last.frame >= 0

\* Batches dispatched whose completion onResultReady has not yet processed:
\* runnables still in the pool and completion events still queued.
InFlight == Len(pool) + signals

-----------------------------------------------------------------------------
\* C1: at most one background batch is dispatched and not yet processed by
\* onResultReady, however many requests outside the safe region arrive
\* while a load is pending.
C1_SingleFlight == InFlight <= 1

\* A request for a frame outside the safe region arrived while a batch was
\* in flight, and dispatched nothing.
C1_Witness ==
    /\ Requested
    /\ ~InRegion(last.frame, regionSafe)
    /\ ~last.dispatched
    /\ loading
    /\ InFlight = 1

\* C2: right after onResultReady the state is Idle and the active regions
\* are the windows of the frame (and sequence length) of the request that
\* dispatched the batch.
C2_PromotedRegions ==
    last.op = "onResultReady" =>
        /\ ~loading
        /\ regionPrefetch =
               getRegion(trigger.frame, ExtentPrefetch, trigger.size)
        /\ regionSafe = getRegion(trigger.frame, ExtentSafe, trigger.size)

\* A load dispatched for frame 50 of 100 frames has completed; the sequence
\* has been replaced in between.
C2_Witness ==
    /\ last.op = "onResultReady"
    /\ trigger = [frame |-> 50, size |-> 100]
    /\ regionPrefetch = Pair(20, 80)
    /\ regionSafe = Pair(30, 70)
    /\ Len(sequence) # trigger.size

\* C3: every frame of the prefetch region is resident in the cache (all
\* decodes succeed, nothing is evicted).  Stated for the states in which a
\* completed load has just installed the region.
C3_PrefetchResident ==
    (undecodable = {} /\ last.op = "onResultReady") =>
        \A f \in regionPrefetch.first..regionPrefetch.second :
            f < Len(sequence) => contains(sequence[f + 1].path)

\* C4: the batch handed to the background loader holds exactly the
\* descriptors of the frames nextPrefetch.first..nextPrefetch.second.
C4_BatchIsWindow ==
    (last.op = "request" /\ last.dispatched) =>
        pool[Len(pool)].toLoad =
            [i \in 1..(nextRegionPrefetch.second
                           - nextRegionPrefetch.first + 1) |->
                sequence[nextRegionPrefetch.first + i]]

\* C5: no call of request() runs the image decoder on the owner thread.
C5_NoOwnerDecode == ~(last.op = "request" /\ last.decoded)

\* C6: request(path) dispatches a load exactly when the path is a frame of
\* the sequence, the frame is outside the safe region and no load is
\* running; a request for a frame inside the safe region changes neither
\* the loading flag, nor the pending regions, nor the pool.
C6_DispatchIff ==
    [][last'.op = "request" =>
          LET frame == getFrame(last'.path)
          IN /\ (Len(pool') = Len(pool) + 1)
                    <=> (frame >= 0 /\ ~InRegion(frame, regionSafe) /\ ~loading)
             /\ Len(pool') \in {Len(pool), Len(pool) + 1}
             /\ (frame >= 0 /\ InRegion(frame, regionSafe)) =>
                    UNCHANGED <<loading, nextRegionPrefetch, nextRegionSafe,
                                pool, signals>>]_vars

\* Idle, a request for a frame inside the safe region of a completed load:
\* nothing is dispatched.
C6_Witness ==
    /\ Requested
    /\ regionSafe = Pair(30, 70)
    /\ InRegion(last.frame, regionSafe)
    /\ ~loading
    /\ ~last.dispatched
    /\ InFlight = 0

\* C7: a request for a frame inside the current prefetch region returns the
\* cache entry of that path with the dimensions and metadata of that frame,
\* whether or not a load is running or was dispatched by the same call.
C7_HitResponse ==
    (Requested /\ InRegion(last.frame, regionPrefetch)) =>
        /\ last.response.img = Image(last.path, Level)
        /\ contains(last.path)
        /\ last.response.dim = <<Width(last.path), Height(last.path)>>
        /\ last.response.metadata = readImageMetadata(last.path).metadata

\* The call was answered from the current prefetch region [20,80] while it
\* dispatched the load of another window that does not hold the frame's
\* former neighbours.
C7_Witness ==
    /\ Requested
    /\ last.dispatched
    /\ loading
    /\ regionPrefetch = Pair(20, 80)
    /\ last.frame = 80
    /\ nextRegionPrefetch # regionPrefetch
    /\ last.response.img = Image(last.path, Level)

\* C8: a request for a frame of the sequence outside the current prefetch
\* region returns an empty Response and leaves the cache alone; when no load
\* is running it dispatches one whose pending prefetch window is
\* getRegion(frame, extentPrefetch).
C8_MissResponse ==
    [][(last'.op = "request" /\ last'.frame >= 0
            /\ ~InRegion(last'.frame, regionPrefetch)) =>
          /\ last'.response = EmptyResponse
          /\ cache' = cache
          /\ ~loading =>
                /\ loading'
                /\ Len(pool') = Len(pool) + 1
                /\ nextRegionPrefetch' =
                       getRegion(last'.frame, ExtentPrefetch, Len(sequence))]_vars

\* Frame 0 is resident but outside the prefetch window [20,80]: the request
\* returns empty and starts the load of [0,60].
C8_Witness ==
    /\ Requested
    /\ last.frame = 0
    /\ Len(sequence) = 100
    /\ regionPrefetch = Pair(20, 80)
    /\ contains(last.path)
    /\ last.response = EmptyResponse
    /\ last.dispatched
    /\ nextRegionPrefetch = Pair(0, 60)

\* The state of a coordinator on which nothing but setSequence has run.
Fresh ==
    /\ cache = {}
    /\ regionPrefetch = Pair(0, 0)
    /\ regionSafe = Pair(0, 0)
    /\ ~loading
    /\ pool = <<>>
    /\ signals = 0
    /\ trigger.frame = -1

\* C9: on a fresh coordinator the first request for any frame F dispatches
\* a load with pending windows getRegion(F, 30) and getRegion(F, 20) and
\* returns an empty Response; once that load has completed, a request for
\* the same frame returns a non-empty Response.
C9_FirstRequest ==
    /\ [][(Fresh /\ last'.op = "request" /\ last'.frame >= 0) =>
            /\ last'.dispatched
            /\ nextRegionPrefetch' =
                   getRegion(last'.frame, ExtentPrefetch, Len(sequence))
            /\ nextRegionSafe' =
                   getRegion(last'.frame, ExtentSafe, Len(sequence))
            /\ last'.response = EmptyResponse]_vars
    /\ []((Requested /\ ~loading /\ last.frame = trigger.frame
              /\ Len(sequence) = trigger.size) =>
            last.response.img # NoImage)

\* C10: before any load has been dispatched the coordinator is Idle and no
\* frame of the sequence belongs to the safe or to the prefetch region.
C10_InitialRegionsEmpty ==
    trigger.frame = -1 =>
        /\ ~loading
        /\ \A f \in 0..(Len(sequence) - 1) :
               ~InRegion(f, regionSafe) /\ ~InRegion(f, regionPrefetch)

-----------------------------------------------------------------------------
\* The paths of the descriptors of the sequence index.
PathsOf(seq) == {seq[i].path : i \in 1..Len(seq)}

\* C11: a request() that arrives while a load is running leaves the loading
\* flag, the active and the pending regions, the pool and the queued
\* completions as they are, and is answered from the current prefetch region
\* or with an empty Response.
C11_RequestWhileLoading ==
    [][(loading /\ last'.op = "request") =>
          /\ UNCHANGED <<loading, regionPrefetch, regionSafe,
                         nextRegionPrefetch, nextRegionSafe, pool, signals,
                         sequence>>
          /\ IF last'.path \in PathsOf(sequence)
                 /\ InRegion(last'.frame, regionPrefetch)
             THEN last'.response.img = Image(last'.path, Level)
             ELSE last'.response = EmptyResponse]_vars

\* While the load of [0,60] is running, a request for frame 80 (outside the
\* safe region [30,70]) is answered from the completed window [20,80].
C11_Witness ==
    /\ Requested
    /\ loading
    /\ ~last.dispatched
    /\ regionPrefetch = Pair(20, 80)
    /\ nextRegionPrefetch = Pair(0, 60)
    /\ last.frame = 80
    /\ last.response.img = Image(last.path, Level)
    /\ Len(pool) = 1

C17_UnknownPath ==
    [][(last'.op = "request" /\ last'.path \notin PathsOf(sequence)) =>
          /\ last'.response = EmptyResponse
          /\ ~last'.dispatched
          /\ UNCHANGED <<sequence, cache, regionPrefetch, regionSafe,
                         nextRegionPrefetch, nextRegionSafe, loading, pool,
                         signals>>]_vars

\* An unknown path was asked for while a load was running on a non-empty
\* sequence.
C17_Witness ==
    /\ last.op = "request"
    /\ last.path \notin PathsOf(sequence)
    /\ Len(sequence) > 0
    /\ loading
    /\ last.response = EmptyResponse

\* One closed interval lies inside another.
Nested(inner, outer) ==
    outer.first <= inner.first /\ inner.second <= outer.second

\* For every sequence length up to NumFrames and every frame, the window of
\* extent 20 lies inside the window of extent 30.
NestedWindows ==
    \A size \in 1..NumFrames : \A frame \in 0..(size - 1) :
        Nested(getRegion(frame, ExtentSafe, size),
               getRegion(frame, ExtentPrefetch, size))

\* C20: the safe window of a frame lies inside its prefetch window, and in
\* every reachable state the safe region lies inside the prefetch region.
C20_SafeInsidePrefetch ==
    /\ NestedWindows
    /\ Nested(regionSafe, regionPrefetch)
    /\ Nested(nextRegionSafe, nextRegionPrefetch)

\* A completed load has installed a safe region strictly inside the
\* prefetch region, at the end of the sequence.
C20_Witness ==
    /\ last.op = "onResultReady"
    /\ regionPrefetch = Pair(39, 99)
    /\ regionSafe = Pair(59, 99)

-----------------------------------------------------------------------------
(* getRegion on its own: a sequence of 1..MaxSize frames, any frame of it,
   any extent 0..MaxExtent *)

InitRegion ==
    /\ unprobeable = {}
    /\ \E size \in 1..MaxSize :
           sequence = setSequence([i \in 1..size |-> size + 1 - i])
    /\ \E frame \in 0..(Len(sequence) - 1), extent \in 0..MaxExtent :
           last = [op |-> "call", frame |-> frame, extent |-> extent,
                   region |-> Pair(0, 0)]
    /\ cache = {}
    /\ regionPrefetch = Pair(0, 0)
    /\ regionSafe = Pair(0, 0)
    /\ nextRegionPrefetch = Pair(0, 0)
    /\ nextRegionSafe = Pair(0, 0)
    /\ loading = FALSE
    /\ pool = <<>>
    /\ signals = 0
    /\ undecodable = {}
    /\ released = FALSE
    /\ viewer = NoViewer
    /\ client = NoClient
    /\ trigger = [frame |-> -1, size |-> 0]

\* getRegion(frame, extent) on the current sequence
CallGetRegion ==
    /\ last.op = "call"
    /\ last' = [last EXCEPT
                   !.op = "getRegion",
                   !.region = getRegion(last.frame, last.extent, Len(sequence))]
    /\ UNCHANGED <<sequence, cache, regionPrefetch, regionSafe,
                   nextRegionPrefetch, nextRegionSafe, loading, pool, signals,
                   undecodable, unprobeable, viewer, released, client, trigger>>

NextRegion == CallGetRegion

SpecRegion == InitRegion /\ [][NextRegion]_vars

\* C18: for a frame of a sequence of N >= 1 frames and an extent >= 0 the
\* window [start, end] has 0 <= start <= frame <= end <= N-1 and
\* min(2*extent+1, N) frames; around an interior frame it is
\* [frame-extent, frame+extent].
C18_RegionShape ==
    last.op = "getRegion" =>
        LET r == last.region
            n == Len(sequence)
        IN /\ 0 <= r.first
           /\ r.first <= last.frame
           /\ last.frame <= r.second
           /\ r.second <= n - 1
           /\ r.second - r.first + 1 = Min(2 * last.extent + 1, n)
           /\ (last.frame - last.extent >= 0 /\ last.frame + last.extent <= n - 1)
                  => /\ r.second - r.first + 1 = 2 * last.extent + 1
                     /\ r.first = last.frame - last.extent

\* Frame 10 of 12 with extent 2: the window is shifted to [7,11].
C18_Witness ==
    /\ last.op = "getRegion"
    /\ Len(sequence) = 12
    /\ last.frame = 10
    /\ last.extent = 2
    /\ last.region = Pair(7, 11)

\* C19: getRegion(0, extent) = [0, min(N-1, 2*extent)] and
\* getRegion(N-1, extent) = [max(0, N-1-2*extent), N-1].
C19_RegionAtBoundaries ==
    last.op = "getRegion" =>
        LET n == Len(sequence)
        IN /\ last.frame = 0 =>
                  last.region = Pair(0, Min(n - 1, 2 * last.extent))
           /\ last.frame = n - 1 =>
                  last.region = Pair(Max(0, n - 1 - 2 * last.extent), n - 1)

\* The last frame of 12 with extent 3: [5,11].
C19_Witness ==
    /\ last.op = "getRegion"
    /\ Len(sequence) = 12
    /\ last.frame = Len(sequence) - 1
    /\ last.extent = 3
    /\ last.region = Pair(5, 11)

-----------------------------------------------------------------------------
(* Decoder failures.  _cache->get leaves PrefetchingIORunnable::run and
   SequenceCache::request by the decoder's exception: run() has no handler,
   so the runnable takes no further step and emits nothing. *)

\* The sets of undecodable paths tried: frame 0, frame 50 or frame 80 of the
\* long list.
FailSets == {{1}, {51}, {81}}

InitFail ==
    /\ sequence = <<>>
    /\ cache = {}
    /\ regionPrefetch = Pair(0, 0)
    /\ regionSafe = Pair(0, 0)
    /\ nextRegionPrefetch = Pair(0, 0)
    /\ nextRegionSafe = Pair(0, 0)
    /\ loading = FALSE
    /\ pool = <<>>
    /\ signals = 0
    /\ undecodable \in FailSets
    /\ unprobeable = {}
    /\ released = FALSE
    /\ viewer = NoViewer
    /\ client = NoClient
    /\ last = NoCall
    /\ trigger = [frame |-> -1, size |-> 0]

\* The thread pool runs every started runnable and the owner's event loop
\* delivers every queued resultReady.
Fairness ==
    /\ WF_vars(WorkerLoad)
    /\ WF_vars(WorkerEmit)
    /\ WF_vars(OnResultReady)

FairSpecFail == InitFail /\ [][Next]_vars /\ Fairness

\* The decode of this path failed in a background batch.
FailedInBatch(path) ==
    \E i \in 1..Len(pool) :
        /\ pool[i].aborted
        /\ pool[i].toLoad[pool[i].next].path = path

\* C12: under fair scheduling of the worker and of the delivery of
\* resultReady, every Loading state is followed by an Idle state.
C12_EveryLoadCompletes == loading ~> ~loading

\* C13: a decode failure does not end a batch: every runnable of the pool
\* goes on with its remaining descriptors and with the completion
\* notification.
C13_FailureSkipped == \A i \in 1..Len(pool) : ~pool[i].aborted

\* C14: a request for a frame whose decode failed in a background batch
\* returns an empty Response, attempts no decode and leaves the frame absent.
C14_FailedFrameNotRetried ==
    (Requested /\ FailedInBatch(last.path)) =>
        /\ ~last.decoded
        /\ ~last.thrown
        /\ last.response = EmptyResponse
        /\ ~contains(last.path)

\* C16: resultReady is emitted by a runnable that has asked the cache for
\* every descriptor of its batch, and that runnable is done with it;
\* onResultReady consumes one resultReady and emits requestHandled once; no
\* resultReady is queued before a dispatch; every runnable of the pool
\* eventually emits its resultReady.
C16_OneCompletionPerBatch ==
    /\ [][signals' = signals + 1 =>
              /\ Len(pool') = Len(pool) - 1
              /\ \E i \in 1..Len(pool) :
                     /\ pool[i].next = Len(pool[i].toLoad) + 1
                     /\ pool' = SubSeq(pool, 1, i - 1)
                                    \o SubSeq(pool, i + 1, Len(pool))]_vars
    /\ [][(last'.op = "onResultReady" =>
               signals > 0 /\ signals' = signals - 1 /\ last'.handled = 1)
           /\ (last'.op # "onResultReady" =>
                   signals' >= signals /\ last'.handled = 0)]_vars
    /\ [](signals > 0 => trigger.frame >= 0)
    /\ (Len(pool) > 0 ~> signals > 0)

\* A client asks for one path of the sequence and for nothing else, again
\* and again; from its first request on the sequence is left alone.
ClientStart ==
    /\ ~released
    /\ client = NoClient
    /\ \E path \in RequestPaths :
           /\ getFrame(path) >= 0
           /\ request(path)
           /\ client' = [path |-> path, completions |-> 0]

ClientRequest ==
    /\ ~released
    /\ client # NoClient
    /\ request(client.path)
    /\ UNCHANGED client

NextClient ==
    \/ client = NoClient /\ SetSequence
    \/ client = NoClient /\ Request
    \/ ClientStart
    \/ ClientRequest
    \/ WorkerLoad
    \/ WorkerEmit
    \/ OnResultReady

\* The client asks again whenever the answer can have changed.
FairSpecClient ==
    InitFail /\ [][NextClient]_vars /\ Fairness /\ WF_vars(ClientRequest)

\* C25: the client's path being decodable, a request the client makes
\* after two loads have completed since its first request returns a
\* non-empty Response, and under fair scheduling the client does get a
\* non-empty Response.
C25_BoundedLag ==
    /\ []((client # NoClient /\ client.path \notin undecodable
              /\ last.op = "request" /\ client.completions >= 2) =>
            last.response # EmptyResponse)
    /\ ((client # NoClient /\ client.path \notin undecodable)
           ~> (last.op = "request" /\ last.response # EmptyResponse))

\* C28: the loading flag is true exactly when one batch is dispatched and
\* not yet processed, that is running in the pool or with its completion
\* queued; there is never more than one.
C28_LoadingIffInFlight ==
    LET running == Cardinality({i \in 1..Len(pool) : ~pool[i].aborted})
    IN /\ running + signals <= 1
       /\ loading <=> (running + signals = 1)

-----------------------------------------------------------------------------
\* C22: setSequence leaves in the index exactly the sorted descriptors of the
\* list it was given, and the request that follows it, for a frame of the
\* new index, is answered as by a coordinator on which no load has ever run
\* (regions as the constructor sets them, Idle): the regions, pending
\* regions and loading flag left by earlier sequences play no part.
C22_SequenceReplaced ==
    /\ [][last'.op = "setSequence" =>
              /\ Len(sequence') = Len(last'.paths)
              /\ PathsOf(sequence') =
                     {last'.paths[i] : i \in 1..Len(last'.paths)}
              /\ \A i, j \in 1..Len(sequence') :
                     i < j => sequence'[i].path < sequence'[j].path]_vars
    /\ [][(last.op = "setSequence" /\ last'.op = "request"
               /\ last'.frame >= 0) =>
              /\ last'.dispatched = ~InRegion(last'.frame, Pair(0, 0))
              /\ (last'.response # EmptyResponse)
                     = InRegion(last'.frame, Pair(0, 0))]_vars

\* C26: a step of the background loader changes neither the loading flag,
\* nor the active or pending regions, nor the sequence index; a rebuild of
\* the index leaves the batches of the runnables as they are; the pending
\* regions change only in a request() made while Idle, which sets the
\* loading flag, and onResultReady installs them.
C26_WorkerIsolated ==
    /\ [][last'.op \in {"run", "resultReady"} =>
              UNCHANGED <<loading, regionPrefetch, regionSafe,
                          nextRegionPrefetch, nextRegionSafe, sequence,
                          trigger>>]_vars
    /\ [][last'.op = "setSequence" => pool' = pool]_vars
    /\ [][(nextRegionPrefetch' # nextRegionPrefetch
               \/ nextRegionSafe' # nextRegionSafe) =>
              last'.op = "request" /\ ~loading /\ loading']_vars
    /\ [][last'.op = "onResultReady" =>
              /\ regionPrefetch' = nextRegionPrefetch
              /\ regionSafe' = nextRegionSafe
              /\ UNCHANGED <<nextRegionPrefetch, nextRegionSafe>>]_vars

\* The loader goes on with its batch of 60 descriptors of the 100-frame
\* sequence after the index was rebuilt with 50 frames.
C26_Witness ==
    /\ last.op = "run"
    /\ loading
    /\ Len(pool) = 1
    /\ Len(pool[1].toLoad) = 60
    /\ pool[1].next > 1
    /\ Len(sequence) = 50
    /\ pool[1].toLoad[1].path \notin PathsOf(sequence)

\* C29: when the sequence is not empty the safe and the prefetch region lie
\* within its frames 0..N-1, and the regions onResultReady has just
\* installed are the windows of the dispatching frame in the current
\* sequence.
C29_RegionsInsideSequence ==
    /\ Len(sequence) > 0 =>
           /\ 0 <= regionSafe.first
           /\ regionSafe.second <= Len(sequence) - 1
           /\ 0 <= regionPrefetch.first
           /\ regionPrefetch.second <= Len(sequence) - 1
    /\ last.op = "onResultReady" =>
           /\ regionPrefetch =
                  getRegion(trigger.frame, ExtentPrefetch, Len(sequence))
           /\ regionSafe =
                  getRegion(trigger.frame, ExtentSafe, Len(sequence))

\* C27: once the coordinator is destroyed and its cache deleted, no
\* background loader asks the cache for anything, whether or not a batch was
\* in flight at the destruction.
C27_NoAccessAfterRelease == released => last.op # "run"

-----------------------------------------------------------------------------
(* The sequence index on its own: setSequence on any list of at most MaxLen
   paths out of 1..MaxPath (duplicates included), with at most one path whose
   probe fails and any set of resident cache entries, followed by getFrame or
   getCachedFrames *)

InputLists == UNION {[1..n -> 1..MaxPath] : n \in 0..MaxLen}

\* Mutant: the scan starts at frame 1.
getCachedFrames_fromOne ==
    LET RECURSIVE scan(_, _)
        scan(frame, cached) ==
            IF frame >= Len(sequence) THEN cached
            ELSE scan(frame + 1,
                      IF contains(sequence[frame + 1].path)
                      THEN Append(cached, frame) ELSE cached)
    IN scan(1, <<>>)

\* The loop of getCachedFrames.
getCachedFrames ==
    LET RECURSIVE scan(_, _)
        scan(frame, cached) ==
            IF frame >= Len(sequence) THEN cached
            ELSE scan(frame + 1,
                      IF contains(sequence[frame + 1].path)
                      THEN Append(cached, frame) ELSE cached)
    IN scan(0, <<>>)

InitIndex ==
    /\ sequence = <<>>
    /\ cache \in SUBSET {Key(path) : path \in 1..MaxPath}
    /\ unprobeable \in {{}} \cup {{path} : path \in 1..MaxPath}
    /\ last = [op |-> "none", paths |-> <<>>, path |-> UnknownPath,
               frame |-> -1, cached |-> <<>>, thrown |-> FALSE]
    /\ regionPrefetch = Pair(0, 0)
    /\ regionSafe = Pair(0, 0)
    /\ nextRegionPrefetch = Pair(0, 0)
    /\ nextRegionSafe = Pair(0, 0)
    /\ loading = FALSE
    /\ pool = <<>>
    /\ signals = 0
    /\ undecodable = {}
    /\ released = FALSE
    /\ viewer = NoViewer
    /\ client = NoClient
    /\ trigger = [frame |-> -1, size |-> 0]

\* setSequence(paths)
CallSetSequence ==
    \E paths \in InputLists :
        /\ last.op = "none"
        /\ sequence' = setSequence(paths)
        /\ last' = [last EXCEPT !.op = "setSequence", !.paths = paths,
                                !.thrown = probeFails(paths)]
        /\ UNCHANGED <<cache, regionPrefetch, regionSafe, nextRegionPrefetch,
                       nextRegionSafe, loading, pool, signals, undecodable,
                       unprobeable, viewer, released, client, trigger>>

\* getFrame(path), for the paths of the lists and one more, before or after
\* setSequence
CallGetFrame ==
    \E path \in 1..(MaxPath + 1) :
        /\ last.op \in {"none", "setSequence"}
        /\ last' = [last EXCEPT !.op = "getFrame", !.path = path,
                                !.frame = getFrame(path)]
        /\ UNCHANGED <<sequence, cache, regionPrefetch, regionSafe,
                       nextRegionPrefetch, nextRegionSafe, loading, pool,
                       signals, undecodable, unprobeable, viewer, released, client,
                       trigger>>

\* getCachedFrames(), before or after setSequence
CallGetCachedFrames ==
    /\ last.op \in {"none", "setSequence"}
    /\ last' = [last EXCEPT !.op = "getCachedFrames",
                            !.cached = getCachedFrames]
    /\ UNCHANGED <<sequence, cache, regionPrefetch, regionSafe,
                   nextRegionPrefetch, nextRegionSafe, loading, pool, signals,
                   undecodable, unprobeable, viewer, released, client, trigger>>

\* request(path), for the paths of the lists and one more, before or after
\* setSequence
CallRequest ==
    \E path \in 1..(MaxPath + 1) :
        /\ last.op \in {"none", "setSequence"}
        /\ request(path)
        /\ UNCHANGED client

NextIndex ==
    \/ CallSetSequence
    \/ CallGetFrame
    \/ CallGetCachedFrames
    \/ CallRequest

SpecIndex == InitIndex /\ [][NextIndex]_vars

\* C21: after setSequence on a list of N distinct paths, in any order (every
\* probe succeeding), the index holds N descriptors in strictly ascending
\* order of path, one per path of the list with the dimensions and metadata
\* of that path, and getFrame of the path at index i is i.
C21_SortedAndInverse ==
    (last.op = "setSequence" /\ ~last.thrown
         /\ \A i, j \in 1..Len(last.paths) :
                last.paths[i] = last.paths[j] => i = j) =>
        /\ Len(sequence) = Len(last.paths)
        /\ \A i, j \in 1..Len(sequence) :
               i < j => sequence[i].path < sequence[j].path
        /\ PathsOf(sequence) = {last.paths[i] : i \in 1..Len(last.paths)}
        /\ \A i \in 1..Len(sequence) :
               /\ sequence[i].dim =
                      <<Width(sequence[i].path), Height(sequence[i].path)>>
               /\ sequence[i].metadata =
                      readImageMetadata(sequence[i].path).metadata
               /\ getFrame(sequence[i].path) = i - 1

\* The list 3, 1, 2 has become the index 1, 2, 3.
C21_Witness ==
    /\ last.op = "setSequence"
    /\ last.paths = <<3, 1, 2>>
    /\ ~last.thrown
    /\ Len(sequence) = 3
    /\ sequence[1].path = 1
    /\ sequence[2].path = 2
    /\ sequence[3].path = 3

\* C23: after a setSequence in which a metadata probe failed, the index is
\* empty or holds the whole list sorted; it holds no descriptor without the
\* dimensions of its image, and no partial or unsorted part of the list.
C23_ProbeFailureSurfaced ==
    (last.op = "setSequence" /\ last.thrown) =>
        /\ \A i \in 1..Len(sequence) :
               sequence[i].dim =
                   <<Width(sequence[i].path), Height(sequence[i].path)>>
        /\ \/ Len(sequence) = 0
           \/ /\ Len(sequence) = Len(last.paths)
              /\ PathsOf(sequence) =
                     {last.paths[i] : i \in 1..Len(last.paths)}
              /\ \A i, j \in 1..Len(sequence) :
                     i < j => sequence[i].path <= sequence[j].path

\* C24: getCachedFrames returns, in strictly ascending order, exactly the
\* frames 0..N-1 whose path has an entry of level 1 in the cache, and changes
\* nothing.
C24_CachedFrames ==
    [][last'.op = "getCachedFrames" =>
          LET cached == last'.cached
          IN /\ \A i, j \in 1..Len(cached) : i < j => cached[i] < cached[j]
             /\ {cached[i] : i \in 1..Len(cached)} =
                    {f \in 0..(Len(sequence) - 1) :
                         <<sequence[f + 1].path, 1>> \in cache}
             /\ UNCHANGED <<sequence, cache, regionPrefetch, regionSafe,
                            nextRegionPrefetch, nextRegionSafe, loading,
                            pool, signals>>]_vars

\* Of the index 1, 2, 3 the first and the last path are resident.
C24_Witness ==
    /\ last.op = "getCachedFrames"
    /\ Len(sequence) = 3
    /\ cache = {Key(1), Key(3)}
    /\ last.cached = <<0, 2>>
    /\ sequence[3].path = 3

\* C30: getFrame(path) is -1 when no descriptor has the path, and otherwise
\* an index of 0..N-1 whose descriptor has the path and before which no
\* descriptor has it; also for lists with duplicates.
C30_FirstIndexOrNotFound ==
    last.op = "getFrame" =>
        LET r == last.frame
        IN IF \A i \in 1..Len(sequence) : sequence[i].path # last.path
           THEN r = -1
           ELSE /\ 0 <= r
                /\ r <= Len(sequence) - 1
                /\ sequence[r + 1].path = last.path
                /\ \A j \in 1..r : sequence[j].path # last.path

\* The list 2, 1, 2: path 2 is at the indices 1 and 2, getFrame gives 1.
C30_Witness ==
    /\ last.op = "getFrame"
    /\ last.paths = <<2, 1, 2>>
    /\ last.path = 2
    /\ last.frame = 1
    /\ sequence[3].path = 2

\* C31: while the sequence is empty, request() finds no frame, returns an
\* empty Response, dispatches nothing, asks the cache for nothing and
\* changes no state, and getCachedFrames returns the empty list.
C31_EmptySequence ==
    /\ [][(Len(sequence) = 0 /\ last'.op = "request") =>
              /\ last'.frame = -1
              /\ last'.response = EmptyResponse
              /\ ~last'.dispatched
              /\ ~last'.decoded
              /\ UNCHANGED <<sequence, cache, regionPrefetch, regionSafe,
                             nextRegionPrefetch, nextRegionSafe, loading,
                             pool, signals, trigger>>]_vars
    /\ [][(Len(sequence) = 0 /\ last'.op = "getCachedFrames") =>
              last'.cached = <<>>]_vars

\* The index is empty and the cache holds path 1: request(path 1) returns
\* empty.
C31_Witness ==
    /\ last.op = "request"
    /\ sequence = <<>>
    /\ last.path = 1
    /\ contains(1)
    /\ last.response = EmptyResponse
    /\ pool = <<>>

-----------------------------------------------------------------------------
(* FloatImageViewer and PanoramaViewer (src/src/FloatImageViewer.cpp,
   src/src/PanoramaViewer.cpp).  A source is a natural number, as a path;
   the size of the GPU texture is left out: an image is told by its path and
   its downscale level. *)

\* _source.isValid()
isValid(source) == source # InvalidSource

\* new FloatImageIORunnable(path, downscaleLevel)
FloatImageIORunnable(path, level) == [path |-> path, level |-> level]

\* FloatImageIORunnable::run: the arguments of resultReady, with the path and
\* level the runnable was made for.  readImage or readImageMetadata may
\* throw; run() catches it and emits a null image.
FloatImageIORunnable_run(r) ==
    IF r.path \in undecodable
    THEN [image |-> NoImage, sourceSize |-> <<0, 0>>,
          metadata |-> NoMetadata, path |-> r.path, level |-> r.level]
    ELSE IF r.path \in unprobeable
    THEN [image |-> NoImage,
          sourceSize |-> <<Width(r.path), Height(r.path)>>,
          metadata |-> NoMetadata, path |-> r.path, level |-> r.level]
    ELSE [image |-> Image(r.path, r.level),
          sourceSize |-> <<Width(r.path), Height(r.path)>>,
          metadata |-> readImageMetadata(r.path).metadata,
          path |-> r.path, level |-> r.level]

\* Mutant: a reload that finds a load running does not mark it outdated.
FloatImageViewer_reload_notOutdated(v) ==
    LET cleared == IF v.clearBeforeLoad THEN [v EXCEPT !.image = NoImage]
                   ELSE v
        fresh == [cleared EXCEPT !.outdated = FALSE]
    IN IF ~isValid(fresh.source)
       THEN [fresh EXCEPT !.outdated = fresh.loading, !.image = NoImage]
       ELSE IF ~fresh.loading
            THEN [fresh EXCEPT
                     !.loading = TRUE,
                     !.runnables = Append(@, FloatImageIORunnable(
                                        fresh.source, fresh.downscaleLevel))]
            ELSE fresh

\* Mutant: the reload for a source that is not valid leaves a running load
\* as it is.
FloatImageViewer_reload_invalidKeepsLoad(v) ==
    LET cleared == IF v.clearBeforeLoad THEN [v EXCEPT !.image = NoImage]
                   ELSE v
        fresh == [cleared EXCEPT !.outdated = FALSE]
    IN IF ~isValid(fresh.source)
       THEN [fresh EXCEPT !.image = NoImage]
       ELSE IF ~fresh.loading
            THEN [fresh EXCEPT
                     !.loading = TRUE,
                     !.runnables = Append(@, FloatImageIORunnable(
                                        fresh.source, fresh.downscaleLevel))]
            ELSE [fresh EXCEPT !.outdated = TRUE]

\* FloatImageViewer::reload
FloatImageViewer_reload(v) ==
    LET cleared == IF v.clearBeforeLoad THEN [v EXCEPT !.image = NoImage]
                   ELSE v
        fresh == [cleared EXCEPT !.outdated = FALSE]
    IN IF ~isValid(fresh.source)
       THEN [fresh EXCEPT !.outdated = fresh.loading, !.image = NoImage]
       ELSE IF ~fresh.loading
            THEN [fresh EXCEPT
                     !.loading = TRUE,
                     !.runnables = Append(@, FloatImageIORunnable(
                                        fresh.source, fresh.downscaleLevel))]
            ELSE [fresh EXCEPT !.outdated = TRUE]

\* FloatImageViewer::onResultReady
FloatImageViewer_onResultReady(v, result) ==
    LET idle == [v EXCEPT !.loading = FALSE]
    IN IF idle.outdated
       THEN FloatImageViewer_reload([idle EXCEPT !.image = NoImage])
       ELSE [idle EXCEPT !.image = result.image,
                         !.sourceSize = result.sourceSize,
                         !.metadata = result.metadata]

\* PanoramaViewer::reload.  The runnable is made without a downscale level
\* (level 0).
PanoramaViewer_reload(v) ==
    LET cleared == IF v.clearBeforeLoad THEN [v EXCEPT !.image = NoImage]
                   ELSE v
        fresh == [cleared EXCEPT !.outdated = FALSE]
    IN IF ~isValid(fresh.source)
       THEN [fresh EXCEPT !.image = NoImage]
       ELSE IF ~fresh.loading
            THEN [fresh EXCEPT
                     !.loading = TRUE,
                     !.runnables = Append(@, FloatImageIORunnable(
                                                 fresh.source, 0))]
            ELSE [fresh EXCEPT !.outdated = TRUE]

\* PanoramaViewer::onResultReady
PanoramaViewer_onResultReady(v, result) ==
    LET idle == [v EXCEPT !.loading = FALSE]
    IN IF idle.outdated
       THEN PanoramaViewer_reload([idle EXCEPT !.image = NoImage])
       ELSE [idle EXCEPT !.image = result.image,
                         !.sourceSize = result.sourceSize,
                         !.metadata = result.metadata]

\* The observation of a step of a viewer.
ViewerCall(op) == [op |-> op, installed |-> FALSE, path |-> InvalidSource,
                   level |-> 0]

\* The variables of a viewer specification that belong to SequenceCache.
NoSequenceCache ==
    /\ sequence = <<>>
    /\ cache = {}
    /\ regionPrefetch = Pair(0, 0)
    /\ regionSafe = Pair(0, 0)
    /\ nextRegionPrefetch = Pair(0, 0)
    /\ nextRegionSafe = Pair(0, 0)
    /\ loading = FALSE
    /\ pool = <<>>
    /\ signals = 0
    /\ released = FALSE
    /\ client = NoClient
    /\ trigger = [frame |-> -1, size |-> 0]

\* A viewer item after its constructor; the last source may be one whose
\* image cannot be decoded.
InitViewer(kind) ==
    /\ NoSequenceCache
    /\ undecodable \in {{}, {NumSources}}
    /\ unprobeable = {}
    /\ \E clear \in BOOLEAN :
           viewer = [NoViewer EXCEPT !.kind = kind, !.clearBeforeLoad = clear]
    /\ last = ViewerCall("none")

\* The source property is written: sourceChanged runs reload().
SetSource ==
    \E source \in 0..NumSources :
        /\ source # viewer.source
        /\ LET v == [viewer EXCEPT !.source = source]
           IN viewer' = IF v.kind = "float"
                        THEN FloatImageViewer_reload(v)
                        ELSE PanoramaViewer_reload(v)
        /\ last' = ViewerCall("setSource")
        /\ UNCHANGED <<sequence, cache, regionPrefetch, regionSafe,
                       nextRegionPrefetch, nextRegionSafe, loading, pool,
                       signals, undecodable, unprobeable, released, client,
                       trigger>>

\* The downscaleLevel property of a FloatImageViewer is written:
\* downscaleLevelChanged runs reload().
SetDownscaleLevel ==
    \E level \in 0..MaxLevel :
        /\ viewer.kind = "float"
        /\ level # viewer.downscaleLevel
        /\ viewer' = FloatImageViewer_reload(
                         [viewer EXCEPT !.downscaleLevel = level])
        /\ last' = ViewerCall("setDownscaleLevel")
        /\ UNCHANGED <<sequence, cache, regionPrefetch, regionSafe,
                       nextRegionPrefetch, nextRegionSafe, loading, pool,
                       signals, undecodable, unprobeable, released, client,
                       trigger>>

\* The clearBeforeLoad property is written.
SetClearBeforeLoad ==
    /\ viewer' = [viewer EXCEPT !.clearBeforeLoad = ~@]
    /\ last' = ViewerCall("setClearBeforeLoad")
    /\ UNCHANGED <<sequence, cache, regionPrefetch, regionSafe,
                   nextRegionPrefetch, nextRegionSafe, loading, pool,
                   signals, undecodable, unprobeable, released, client,
                   trigger>>

\* A pool thread runs a runnable of the viewer: its resultReady is queued to
\* the thread of the viewer.
ViewerRun ==
    \E i \in 1..Len(viewer.runnables) :
        /\ viewer' = [viewer EXCEPT
               !.runnables = SubSeq(@, 1, i - 1) \o SubSeq(@, i + 1, Len(@)),
               !.results = Append(@,
                               FloatImageIORunnable_run(viewer.runnables[i]))]
        /\ last' = ViewerCall("run")
        /\ UNCHANGED <<sequence, cache, regionPrefetch, regionSafe,
                       nextRegionPrefetch, nextRegionSafe, loading, pool,
                       signals, undecodable, unprobeable, released, client,
                       trigger>>

\* The event loop of the viewer delivers the first queued resultReady.
ViewerOnResultReady ==
    /\ Len(viewer.results) > 0
    /\ LET result == Head(viewer.results)
           v == [viewer EXCEPT !.results = Tail(@)]
       IN /\ viewer' = IF v.kind = "float"
                       THEN FloatImageViewer_onResultReady(v, result)
                       ELSE PanoramaViewer_onResultReady(v, result)
          /\ last' = [op |-> "onResultReady", installed |-> ~viewer.outdated,
                      path |-> result.path, level |-> result.level]
    /\ UNCHANGED <<sequence, cache, regionPrefetch, regionSafe,
                   nextRegionPrefetch, nextRegionSafe, loading, pool,
                   signals, undecodable, unprobeable, released, client,
                   trigger>>

NextFloatViewer ==
    \/ SetSource
    \/ SetDownscaleLevel
    \/ SetClearBeforeLoad
    \/ ViewerRun
    \/ ViewerOnResultReady

\* The thread pool runs every started runnable and the event loop delivers
\* every queued resultReady.
FairSpecFloatViewer ==
    /\ InitViewer("float")
    /\ [][NextFloatViewer]_vars
    /\ WF_vars(ViewerRun)
    /\ WF_vars(ViewerOnResultReady)

NextPanoramaViewer ==
    \/ SetSource
    \/ SetClearBeforeLoad
    \/ ViewerRun
    \/ ViewerOnResultReady

SpecPanoramaViewer == InitViewer("panorama") /\ [][NextPanoramaViewer]_vars

\* C32: a FloatImageViewer has at most one runnable started whose result
\* is not yet delivered; a reload while loading starts no runnable and
\* leaves the outdated flag set; a result delivered while the outdated flag
\* is set is not installed: the image is reset, size and metadata stay, and
\* a runnable for the current source and level is started if the source is
\* valid, none otherwise.
C32_SingleLoadOutdated ==
    /\ [](Len(viewer.runnables) + Len(viewer.results) <= 1)
    /\ []((Len(viewer.runnables) + Len(viewer.results) = 1) <=> viewer.loading)
    /\ [][(viewer.loading
               /\ last'.op \in {"setSource", "setDownscaleLevel"}) =>
              /\ viewer'.runnables = viewer.runnables
              /\ viewer'.results = viewer.results
              /\ viewer'.loading
              /\ viewer'.outdated]_vars
    /\ [][(viewer.outdated /\ last'.op = "onResultReady") =>
              /\ ~last'.installed
              /\ viewer'.image = NoImage
              /\ viewer'.sourceSize = viewer.sourceSize
              /\ viewer'.metadata = viewer.metadata
              /\ ~viewer'.outdated
              /\ viewer'.results = <<>>
              /\ IF isValid(viewer.source)
                 THEN /\ viewer'.loading
                      /\ viewer'.runnables =
                             <<FloatImageIORunnable(viewer.source,
                                                    viewer.downscaleLevel)>>
                 ELSE /\ ~viewer'.loading
                      /\ viewer'.runnables = <<>>]_vars

\* The result of the load of source 1 was dropped because the source had
\* become 2 meanwhile, and the load of source 2 was started.
C32_Witness ==
    /\ last.op = "onResultReady"
    /\ ~last.installed
    /\ last.path = 1
    /\ viewer.source = 2
    /\ viewer.loading
    /\ viewer.runnables = <<FloatImageIORunnable(2, viewer.downscaleLevel)>>
    /\ viewer.image = NoImage

\* The image a FloatImageViewer shows for a source and level once loaded.
Shown(source, level) ==
    IF source \in undecodable THEN NoImage ELSE Image(source, level)

\* C33: an image onResultReady installs in a FloatImageViewer was loaded for
\* the source and the downscale level the viewer has at that moment; and if
\* from some time on the source stays the same valid source and the level
\* the same level, then from some time on the viewer is not loading and
\* shows the image of that source at that level.
C33_LatestImageShown ==
    /\ []((last.op = "onResultReady" /\ last.installed) =>
              /\ last.path = viewer.source
              /\ last.level = viewer.downscaleLevel
              /\ viewer.image = Shown(viewer.source, viewer.downscaleLevel))
    /\ \A source \in 1..NumSources : \A level \in 0..MaxLevel :
           <>[](viewer.source = source /\ viewer.downscaleLevel = level)
               => <>[](/\ ~viewer.loading
                       /\ viewer.image = Shown(source, level))

\* The image of source 2 at level 1 was installed after the load of source 1
\* at level 0 had been dropped.
C33_Witness ==
    /\ last.op = "onResultReady"
    /\ last.installed
    /\ viewer.source = 2
    /\ viewer.downscaleLevel = 1
    /\ 2 \notin undecodable
    /\ viewer.image = Image(2, 1)
    /\ viewer.sourceSize = <<Width(2), Height(2)>>
    /\ ~viewer.loading

\* C34: a result delivered to a PanoramaViewer whose source is not valid is
\* dropped: the image stays empty, and size and metadata stay as they were.
C34_PanoramaInvalidDiscards ==
    [][(viewer.kind = "panorama" /\ ~isValid(viewer.source)
            /\ last'.op = "onResultReady") =>
          /\ ~last'.installed
          /\ viewer'.image = NoImage
          /\ viewer'.sourceSize = viewer.sourceSize
          /\ viewer'.metadata = viewer.metadata]_vars

====
